---------------------------- MODULE Spec2Model ----------------------------
(***************************************************************************)
(* Model of analyze.py: the quorum/latency analysis harness of the         *)
(* Leaders-and-Followers replication lab.                                  *)
(*                                                                         *)
(*   Spec       run_analysis: the quorum sweep, the bounded concurrent     *)
(*              write driver and the final consistency check               *)
(*   SpecStats  calculate_stats applied to a bounded family of samples     *)
(*   SpecCons   check_consistency over a bounded family of node dumps      *)
(*                                                                         *)
(* Durations are integers (clock ticks).  mean and median are exact        *)
(* rationals [num, den], compared by cross-multiplication.                 *)
(***************************************************************************)
EXTENDS Integers, Sequences, FiniteSets, TLC

VARIABLES
    \* ---- run_analysis ----
    pc,            \* position of run_analysis
    qi,            \* index into QUORUM_VALUES of the current loop iteration
    all_stats,     \* Dict[int, LatencyStats]: function on a subset of quorum values
    latencies,     \* the list run_concurrent_writes returned in this iteration
    set_ok,        \* history: per sweep index, "none" | "ok" | "failed" (set_quorum result)
    succ,          \* history: per sweep index, number of writes the store answered with success
    attempted,     \* history: per sweep index, number of write requests sent
    \* ---- run_concurrent_writes / bounded_write / write_key ----
    sem,           \* asyncio.Semaphore: number of free slots
    ip,            \* per task: index of the next step of bounded_write (0 = no task)
    holds,         \* per task: inside "async with semaphore"
    timing,        \* per task: perf_counter timer started and not yet stopped
    inflight,      \* per task: request sent, response not yet received
    outcome,       \* per task: what the store answered (local to write_key)
    result,        \* per task: the value write_key returned
    escaped,       \* per task: an exception left write_key
    issued,        \* per task: number of write requests the task has sent
    \* ---- check_consistency ----
    leader_resp,   \* the leader's answer to GET /dump
    leader_data,   \* get_all_data(LEADER_URL)
    follower_resp, \* the answer of the follower fetched last
    follower_data, \* get_all_data(url) of the follower fetched last
    fi,            \* index into FOLLOWER_URLS of the next follower
    report,        \* the dict check_consistency builds ("results" in the source)
    checks,        \* history: number of calls of check_consistency
    \* ---- calculate_stats in isolation ----
    spc,           \* "input" | "done"
    sample,        \* the list handed to calculate_stats
    stats,         \* the LatencyStats it returned
    \* ---- the values of the write tasks ----
    wall,          \* the last reading of time.time()
    created        \* history: the value strings of all tasks created, in order

vars == << pc, qi, all_stats, latencies, set_ok, succ, attempted,
           sem, ip, holds, timing, inflight, outcome, result, escaped, issued,
           leader_resp, leader_data, follower_resp, follower_data, fi, report, checks,
           spc, sample, stats, wall, created >>

runVars   == << pc, qi, all_stats, latencies, set_ok, succ, attempted >>
taskVars  == << sem, ip, holds, timing, inflight, outcome, result, escaped, issued >>
consVars  == << leader_resp, leader_data, follower_resp, follower_data, fi, report, checks >>
statsVars == << spc, sample, stats >>
valueVars == << wall, created >>

-----------------------------------------------------------------------------
(* Configuration (lines 27-39), scaled down.                               *)

NUM_KEYS == 2

NUM_WRITES_PER_KEY == 1

CONCURRENT_WRITES == 1

QUORUM_VALUES == << 1, 2 >>

FOLLOWER_URLS == << "http://localhost:8081", "http://localhost:8082" >>

\* Largest sample size of the generated sample family (SpecStats).
MaxN == 25

-----------------------------------------------------------------------------
(* Helpers.                                                                *)

Rat(n, d) == [num |-> n, den |-> d]

RatLeq(a, b) == a.num * b.den <= b.num * a.den

RatEq(a, b) == a.num * b.den = b.num * a.den

RECURSIVE SumSeq(_)
SumSeq(s) == IF s = << >> THEN 0 ELSE Head(s) + SumSeq(Tail(s))

SeqMin(s) == CHOOSE x \in { s[i] : i \in 1..Len(s) } : \A j \in 1..Len(s) : x <= s[j]

SeqMax(s) == CHOOSE x \in { s[i] : i \in 1..Len(s) } : \A j \in 1..Len(s) : x >= s[j]

\* Python's sorted(): ascending, stable.
sorted(s) == SortSeq(s, LAMBDA a, b : a < b)

\* Python subscript s[k], k counted from 0.
At(s, k) == s[k + 1]

-----------------------------------------------------------------------------
(* calculate_stats (lines 123-138).                                        *)

LatencyStats(mean, median, p95, p99, min_val, max_val) ==
    [ mean |-> mean, median |-> median, p95 |-> p95, p99 |-> p99,
      min_val |-> min_val, max_val |-> max_val ]

\* Mutant: the 0-based index of the nearest-rank element, ceil(n * pct / 100) - 1.
PercentileIndexNearestRank(n, pct) == (n * pct + 99) \div 100 - 1

\* int(n * 0.95), int(n * 0.99): truncation of n * pct / 100.  The float
\* product truncates to the same integer as the exact one for every
\* n < 5000.
PercentileIndex(n, pct) == (n * pct) \div 100

\* statistics.mean
StatMean(data) == Rat(SumSeq(data), Len(data))

\* Mutant: the two middle elements are added and not halved.
StatMedianNotHalved(data) ==
    LET s == sorted(data)
        n == Len(s)
    IN  IF n % 2 = 1
        THEN Rat(At(s, n \div 2), 1)
        ELSE Rat(At(s, n \div 2 - 1) + At(s, n \div 2), 1)

\* statistics.median: middle element, or the average of the two middle ones.
StatMedian(data) ==
    LET s == sorted(data)
        n == Len(s)
    IN  IF n % 2 = 1
        THEN Rat(At(s, n \div 2), 1)
        ELSE Rat(At(s, n \div 2 - 1) + At(s, n \div 2), 2)

\* Mutant: an empty sample is answered with the -1 marker in every field.
calculate_stats_empty_marker(lats) ==
    IF lats = << >>
    THEN LatencyStats(Rat(-1, 1), Rat(-1, 1), -1, -1, -1, -1)
    ELSE LET sorted_lats == sorted(lats)
             n == Len(sorted_lats)
         IN  LatencyStats(
                 StatMean(lats),
                 StatMedian(lats),
                 IF n > 1 THEN At(sorted_lats, PercentileIndex(n, 95)) ELSE At(sorted_lats, 0),
                 IF n > 1 THEN At(sorted_lats, PercentileIndex(n, 99)) ELSE At(sorted_lats, 0),
                 SeqMin(lats),
                 SeqMax(lats))

\* Mutant: the percentiles are read from the list as given, not from the sorted copy.
calculate_stats_unsorted(lats) ==
    IF lats = << >>
    THEN LatencyStats(Rat(0, 1), Rat(0, 1), 0, 0, 0, 0)
    ELSE LET n == Len(lats)
         IN  LatencyStats(
                 StatMean(lats),
                 StatMedian(lats),
                 IF n > 1 THEN At(lats, PercentileIndex(n, 95)) ELSE At(lats, 0),
                 IF n > 1 THEN At(lats, PercentileIndex(n, 99)) ELSE At(lats, 0),
                 SeqMin(lats),
                 SeqMax(lats))

calculate_stats(lats) ==
    IF lats = << >>
    THEN LatencyStats(Rat(0, 1), Rat(0, 1), 0, 0, 0, 0)
    ELSE LET sorted_lats == sorted(lats)
             n == Len(sorted_lats)
         IN  LatencyStats(
                 StatMean(lats),
                 StatMedian(lats),
                 IF n > 1 THEN At(sorted_lats, PercentileIndex(n, 95)) ELSE At(sorted_lats, 0),
                 IF n > 1 THEN At(sorted_lats, PercentileIndex(n, 99)) ELSE At(sorted_lats, 0),
                 SeqMin(lats),
                 SeqMax(lats))

-----------------------------------------------------------------------------
(* SpecStats: calculate_stats on a bounded family of samples.              *)

LatencyValues == { 0, 1, 2 }

\* Every list of at most three small latencies (every order of every multiset).
SmallSamples ==
    UNION { [1..n -> LatencyValues] : n \in 0..3 }

\* Unsorted lists of length n: the residues of an arithmetic progression.
GenSample(n, a, b, m) == [ i \in 1..n |-> ((a * i + b) % m) + 1 ]

GenSamples ==
    { GenSample(n, a, b, m) : n \in 4..MaxN, a \in { 1, 3, 7 }, b \in { 0, 1 }, m \in { 5, 29 } }

\* The sample of explain_metrics (lines 334-341): 99 requests of 10 ms and
\* one of 1000 ms, the slow one first, in the middle or last.
OutlierSample(pos) == [ i \in 1..100 |-> IF i = pos THEN 1000 ELSE 10 ]

OutlierSamples == { OutlierSample(pos) : pos \in { 1, 50, 100 } }

Samples == SmallSamples \cup GenSamples \cup OutlierSamples

NoStats == LatencyStats(Rat(0, 1), Rat(0, 1), -1, -1, -1, -1)

InitStats ==
    /\ spc = "input"
    /\ sample \in Samples
    /\ stats = NoStats

CalculateStats ==
    /\ spc = "input"
    /\ stats' = calculate_stats(sample)
    /\ spc' = "done"
    /\ UNCHANGED sample

-----------------------------------------------------------------------------
(* The store's answers.  An answer is an HTTP response with a status and a *)
(* body, a response whose body is not JSON, or a transport exception.      *)

EmptyDict == [ k \in {} |-> 0 ]

Http(status, body) == [ kind |-> "http", status |-> status, json_ok |-> TRUE, body |-> body ]

BadJson(status) == [ kind |-> "http", status |-> status, json_ok |-> FALSE, body |-> EmptyDict ]

TransportError == [ kind |-> "exception", status |-> 0, json_ok |-> FALSE, body |-> EmptyDict ]

NoResponse == [ kind |-> "none", status |-> 0, json_ok |-> FALSE, body |-> EmptyDict ]

Restrict(f, S) == [ k \in S |-> f[k] ]

\* Iteration order of a dict's keys (the order of the JSON document).
KeyOrder == << "a", "b", "c", "d" >>

DictKeys(d) == SelectSeq(KeyOrder, LAMBDA k : k \in DOMAIN d)

\* The leader dump of the worked example, and its restrictions.
ExampleLeader == [ k \in { "a", "b", "c" } |-> CASE k = "a" -> 1 [] k = "b" -> 2 [] OTHER -> 3 ]

LeaderDumps == { Restrict(ExampleLeader, S) : S \in SUBSET DOMAIN ExampleLeader }

\* A follower holds each leader key with the leader's value, with another
\* value (9), or not at all, and may hold the extra key "d".
FollowerDumps ==
    { f \in UNION { [S -> { 1, 2, 3, 9 }] : S \in SUBSET { "a", "b", "c", "d" } } :
        \A k \in DOMAIN f : k \in DOMAIN ExampleLeader => f[k] \in { ExampleLeader[k], 9 } }

\* The body of an error page.
ErrorBody == [ k \in { "error" } |-> 9 ]

DumpFailures == { Http(500, ErrorBody), BadJson(200), TransportError }

LeaderResponses == { Http(200, d) : d \in LeaderDumps } \cup DumpFailures

FollowerResponses == { Http(200, d) : d \in FollowerDumps } \cup DumpFailures

\* The few answers the full run draws from.
SmallLeaderResponses ==
    { Http(200, Restrict(ExampleLeader, { "a" })), TransportError }

SmallFollowerResponses ==
    { Http(200, Restrict(ExampleLeader, { "a" })), Http(200, EmptyDict), TransportError }

-----------------------------------------------------------------------------
(* get_all_data (lines 141-150) and check_consistency (lines 153-190).     *)

\* Mutant: the status is not looked at.
get_all_data_any_status(resp) ==
    IF resp.kind = "http" /\ resp.json_ok
    THEN resp.body
    ELSE EmptyDict

get_all_data(resp) ==
    IF resp.kind = "http" /\ resp.status = 200 /\ resp.json_ok
    THEN resp.body
    ELSE EmptyDict

NoCounts == [ matching_count |-> 0, mismatched_values |-> << >>, missing_keys |-> << >> ]

\* Mutant: "if" in place of "elif": a missing key is also listed as mismatched.
ClassifyKeyNoElif(acc, l_data, f_data, k) ==
    IF k \notin DOMAIN f_data
    THEN [ acc EXCEPT !.missing_keys = Append(@, k), !.mismatched_values = Append(@, k) ]
    ELSE IF l_data[k] = f_data[k]
         THEN [ acc EXCEPT !.matching_count = @ + 1 ]
         ELSE [ acc EXCEPT !.mismatched_values = Append(@, k) ]

\* Mutant: a key the follower holds counts as matching whatever its value.
ClassifyKeyIgnoreValue(acc, l_data, f_data, k) ==
    IF k \notin DOMAIN f_data
    THEN [ acc EXCEPT !.missing_keys = Append(@, k) ]
    ELSE [ acc EXCEPT !.matching_count = @ + 1 ]

\* One pass of the loop body "for k in leader_data.keys()" (lines 170-176).
ClassifyKey(acc, l_data, f_data, k) ==
    IF k \notin DOMAIN f_data
    THEN [ acc EXCEPT !.missing_keys = Append(@, k) ]
    ELSE IF l_data[k] = f_data[k]
         THEN [ acc EXCEPT !.matching_count = @ + 1 ]
         ELSE [ acc EXCEPT !.mismatched_values = Append(@, k) ]

RECURSIVE ClassifyKeys(_, _, _, _)
ClassifyKeys(acc, l_data, f_data, ks) ==
    IF ks = << >>
    THEN acc
    ELSE ClassifyKeys(ClassifyKey(acc, l_data, f_data, Head(ks)), l_data, f_data, Tail(ks))

\* Python slice s[:k].
Prefix(s, k) == SubSeq(s, 1, IF Len(s) < k THEN Len(s) ELSE k)

\* Mutant: a follower is consistent only if it also holds as many keys as the leader.
FollowerRecordSameSize(i, l_data, f_data) ==
    LET c == ClassifyKeys(NoCounts, l_data, f_data, DictKeys(l_data))
        is_consistent == /\ Len(c.mismatched_values) = 0
                         /\ Len(c.missing_keys) = 0
                         /\ Cardinality(DOMAIN f_data) = Cardinality(DOMAIN l_data)
    IN  [ follower            |-> i,
          keys                |-> Cardinality(DOMAIN f_data),
          matches_leader      |-> is_consistent,
          matching_count      |-> c.matching_count,
          mismatched_values   |-> Len(c.mismatched_values),
          missing_keys        |-> Len(c.missing_keys),
          mismatched_examples |-> Prefix(c.mismatched_values, 3) ]

\* The dict appended to results["followers"] (lines 166-188).
FollowerRecord(i, l_data, f_data) ==
    LET c == ClassifyKeys(NoCounts, l_data, f_data, DictKeys(l_data))
        is_consistent == Len(c.mismatched_values) = 0 /\ Len(c.missing_keys) = 0
    IN  [ follower            |-> i,
          keys                |-> Cardinality(DOMAIN f_data),
          matches_leader      |-> is_consistent,
          matching_count      |-> c.matching_count,
          mismatched_values   |-> Len(c.mismatched_values),
          missing_keys        |-> Len(c.missing_keys),
          mismatched_examples |-> Prefix(c.mismatched_values, 3) ]

NoReport == [ leader_keys |-> 0, followers |-> << >> ]

ConsInit ==
    /\ leader_resp = NoResponse
    /\ leader_data = EmptyDict
    /\ follower_resp = NoResponse
    /\ follower_data = EmptyDict
    /\ fi = 0
    /\ report = NoReport
    /\ checks = 0

\* Lines 155-160: the leader's dump and the empty report.
GetLeaderData(Responses) ==
    /\ pc = "check_leader"
    /\ \E resp \in Responses :
          /\ leader_resp' = resp
          /\ leader_data' = get_all_data(resp)
          /\ report' = [ leader_keys |-> Cardinality(DOMAIN get_all_data(resp)),
                         followers   |-> << >> ]
    /\ fi' = 1
    /\ checks' = checks + 1
    /\ pc' = "check_followers"
    /\ UNCHANGED << follower_resp, follower_data >>
    /\ UNCHANGED << qi, all_stats, latencies, set_ok, succ, attempted >>
    /\ UNCHANGED << sem, ip, holds, timing, inflight, outcome, result, escaped, issued >>
    /\ UNCHANGED << spc, sample, stats >>
    /\ UNCHANGED valueVars

\* Lines 162-188: one iteration of the loop over FOLLOWER_URLS; after the
\* last one check_consistency returns and run_analysis prints the report.
CheckFollower(Responses) ==
    /\ pc = "check_followers"
    /\ fi <= Len(FOLLOWER_URLS)
    /\ \E resp \in Responses :
          /\ follower_resp' = resp
          /\ follower_data' = get_all_data(resp)
          /\ report' = [ report EXCEPT !.followers =
                            Append(@, FollowerRecord(fi, leader_data, get_all_data(resp))) ]
    /\ fi' = fi + 1
    /\ pc' = IF fi = Len(FOLLOWER_URLS) THEN "done" ELSE "check_followers"
    /\ UNCHANGED << leader_resp, leader_data, checks >>
    /\ UNCHANGED << qi, all_stats, latencies, set_ok, succ, attempted >>
    /\ UNCHANGED << sem, ip, holds, timing, inflight, outcome, result, escaped, issued >>
    /\ UNCHANGED << spc, sample, stats >>
    /\ UNCHANGED valueVars

-----------------------------------------------------------------------------
(* set_quorum (lines 53-63) and write_key (lines 66-85).                   *)

ConfigResponses == { Http(200, EmptyDict), Http(500, EmptyDict), TransportError }

set_quorum(resp) == resp.kind = "http" /\ resp.status = 200

\* Time between the two perf_counter() readings of one write.
ElapsedTimes == { 0, 1 }

Success(v) == [ k \in { "success" } |-> v ]

WriteResponses ==
    { Http(200, Success(TRUE)), Http(200, Success(FALSE)), Http(200, EmptyDict),
      Http(500, Success(TRUE)), BadJson(200), TransportError }

\* dict.get(key): the value, or None (falsy) when the key is absent.
DictGetTruthy(d, k) == k \in DOMAIN d /\ d[k] = TRUE

\* The store answered 200 with a body that signals success.
StoreAccepted(o) ==
    /\ o.kind = "http"
    /\ o.status = 200
    /\ o.json_ok
    /\ "success" \in DOMAIN o.body
    /\ o.body["success"] = TRUE

Returned(v) == [ raised |-> FALSE, value |-> v ]

Raised == [ raised |-> TRUE, value |-> -1 ]

\* The body of the try block (lines 73-82): session.post raises on a
\* transport error, resp.json() raises on a body that is not JSON.
WriteKeyTry(o, elapsed) ==
    IF o.kind = "exception"
    THEN Raised
    ELSE IF o.status = 200
         THEN IF ~o.json_ok
              THEN Raised
              ELSE IF DictGetTruthy(o.body, "success")
                   THEN Returned(elapsed)
                   ELSE Returned(-1)
         ELSE Returned(-1)

\* Mutant: no except clause.
write_key_no_except(o, elapsed) == WriteKeyTry(o, elapsed)

\* try / except Exception (lines 72, 83-85).
write_key(o, elapsed) ==
    LET r == WriteKeyTry(o, elapsed)
    IN  IF r.raised THEN Returned(-1) ELSE r

-----------------------------------------------------------------------------
(* run_concurrent_writes (lines 88-120).                                   *)

\* One task per (i, key) pair, in creation order (lines 107-110).
Tasks == 1..(NUM_WRITES_PER_KEY * NUM_KEYS)

\* Mutant: the slot is acquired and never given back.
bounded_write_no_release == << "acquire", "start", "issue", "response" >>

\* Mutant: the timer is started before the slot is asked for.
bounded_write_timer_first == << "start", "acquire", "issue", "response", "release" >>

\* The steps of one bounded_write task, in program order: "async with
\* semaphore" entered (102), start = perf_counter() (71), session.post sent
\* (73), response or exception received and the timer read (77-85), "async
\* with" left (102).
bounded_write == << "acquire", "start", "issue", "response", "release" >>

Step(t) == IF ip[t] \in 1..Len(bounded_write) THEN bounded_write[ip[t]] ELSE "end"

\* Mutant: the semaphore never blocks.
CanAcquireAlways(value) == TRUE

\* asyncio.Semaphore.acquire returns at once only when a slot is free.
CanAcquire(value) == value > 0

IdleTasks ==
    /\ sem = 0
    /\ ip = [ t \in Tasks |-> 0 ]
    /\ holds = [ t \in Tasks |-> FALSE ]
    /\ timing = [ t \in Tasks |-> FALSE ]
    /\ inflight = [ t \in Tasks |-> FALSE ]
    /\ outcome = [ t \in Tasks |-> NoResponse ]
    /\ result = [ t \in Tasks |-> -1 ]
    /\ escaped = [ t \in Tasks |-> FALSE ]
    /\ issued = [ t \in Tasks |-> 0 ]

\* Line 199: keys = [f"key_{i}" for i in range(NUM_KEYS)].
Key(k) == "key_" \o ToString(k)

\* Lines 106-107: the tasks are created repetition by repetition, key by key.
TaskRepetition(t) == (t - 1) \div NUM_KEYS
TaskKey(t) == Key((t - 1) % NUM_KEYS)

\* Line 108: f"value_{key}_{i}_{time.time()}".
ValueOf(key, i, now) == "value_" \o key \o "_" \o ToString(i) \o "_" \o ToString(now)

\* time.time() on a clock that nobody adjusts: the tasks of one call are
\* created within the same tick, and every call is at least the 0.5 s of
\* line 213 after the one before.
SteadyClock == { [ t \in Tasks |-> wall + 1 ] }

\* time.time() in general: the system clock can be set back between two
\* readings, so a reading may repeat the one before.
AdjustableClock == [ Tasks -> { wall, wall + 1 } ]

NoValues ==
    /\ wall = 0
    /\ created = << >>

\* Lines 98-113: the semaphore, the tasks, and gather starting them.
StartWrites(Readings) ==
    /\ pc = "sleep"
    /\ \E now \in Readings :
          /\ created' = created \o [ t \in Tasks |-> ValueOf(TaskKey(t), TaskRepetition(t), now[t]) ]
          /\ wall' = now[NUM_WRITES_PER_KEY * NUM_KEYS]
    /\ pc' = "gather"
    /\ sem' = CONCURRENT_WRITES
    /\ ip' = [ t \in Tasks |-> 1 ]
    /\ holds' = [ t \in Tasks |-> FALSE ]
    /\ timing' = [ t \in Tasks |-> FALSE ]
    /\ inflight' = [ t \in Tasks |-> FALSE ]
    /\ outcome' = [ t \in Tasks |-> NoResponse ]
    /\ result' = [ t \in Tasks |-> -1 ]
    /\ escaped' = [ t \in Tasks |-> FALSE ]
    /\ issued' = [ t \in Tasks |-> 0 ]
    /\ UNCHANGED << qi, all_stats, latencies, set_ok, succ, attempted >>
    /\ UNCHANGED << consVars, statsVars >>

\* Line 102: the semaphore hands its slots to the waiting tasks in the
\* order in which they asked, which is the order gather started them in.
Acquire(t) ==
    /\ pc = "gather"
    /\ Step(t) = "acquire"
    /\ CanAcquire(sem)
    /\ \A u \in Tasks : u < t => Step(u) # "acquire"
    /\ sem' = sem - 1
    /\ holds' = [ holds EXCEPT ![t] = TRUE ]
    /\ ip' = [ ip EXCEPT ![t] = @ + 1 ]
    /\ UNCHANGED << timing, inflight, outcome, result, escaped, issued >>
    /\ UNCHANGED << runVars, consVars, statsVars >>
    /\ UNCHANGED valueVars

\* Line 71.
StartTimer(t) ==
    /\ pc = "gather"
    /\ Step(t) = "start"
    /\ timing' = [ timing EXCEPT ![t] = TRUE ]
    /\ ip' = [ ip EXCEPT ![t] = @ + 1 ]
    /\ UNCHANGED << sem, holds, inflight, outcome, result, escaped, issued >>
    /\ UNCHANGED << runVars, consVars, statsVars >>
    /\ UNCHANGED valueVars

\* Lines 73-76.
IssueWrite(t) ==
    /\ pc = "gather"
    /\ Step(t) = "issue"
    /\ inflight' = [ inflight EXCEPT ![t] = TRUE ]
    /\ issued' = [ issued EXCEPT ![t] = @ + 1 ]
    /\ attempted' = [ attempted EXCEPT ![qi] = @ + 1 ]
    /\ ip' = [ ip EXCEPT ![t] = @ + 1 ]
    /\ UNCHANGED << sem, holds, timing, outcome, result, escaped >>
    /\ UNCHANGED << pc, qi, all_stats, latencies, set_ok, succ >>
    /\ UNCHANGED << consVars, statsVars >>
    /\ UNCHANGED valueVars

\* Lines 77-85: the answer arrives, the timer is read (or abandoned when
\* the request raised) and write_key's return value is determined.
ReceiveResponseOf(t, Responses, Times) ==
    /\ pc = "gather"
    /\ Step(t) = "response"
    /\ \E o \in Responses, e \in Times :
          LET r == write_key(o, e)
          IN  /\ outcome' = [ outcome EXCEPT ![t] = o ]
              /\ result' = [ result EXCEPT ![t] = r.value ]
              /\ escaped' = [ escaped EXCEPT ![t] = r.raised ]
              /\ succ' = [ succ EXCEPT ![qi] = IF StoreAccepted(o) THEN @ + 1 ELSE @ ]
    /\ timing' = [ timing EXCEPT ![t] = FALSE ]
    /\ inflight' = [ inflight EXCEPT ![t] = FALSE ]
    /\ ip' = [ ip EXCEPT ![t] = @ + 1 ]
    /\ UNCHANGED << sem, holds, issued >>
    /\ UNCHANGED << pc, qi, all_stats, latencies, set_ok, attempted >>
    /\ UNCHANGED << consVars, statsVars >>
    /\ UNCHANGED valueVars

ReceiveResponse(t) == ReceiveResponseOf(t, WriteResponses, ElapsedTimes)

\* Line 102, leaving the "async with": write_key's locals are gone.
Release(t) ==
    /\ pc = "gather"
    /\ Step(t) = "release"
    /\ sem' = sem + 1
    /\ holds' = [ holds EXCEPT ![t] = FALSE ]
    /\ outcome' = [ outcome EXCEPT ![t] = NoResponse ]
    /\ ip' = [ ip EXCEPT ![t] = @ + 1 ]
    /\ UNCHANGED << timing, inflight, result, escaped, issued >>
    /\ UNCHANGED << runVars, consVars, statsVars >>
    /\ UNCHANGED valueVars

\* Mutant: gather is left as soon as one task has finished.
GatherFirstDone == \E t \in Tasks : Step(t) = "end"

\* Line 113: "await asyncio.gather(*tasks)" resumes when every task has finished.
GatherDone == \A t \in Tasks : Step(t) = "end"

\* Mutant: only latencies above 0 are kept.
SuccessfulLatenciesPositive(results) == SelectSeq(results, LAMBDA latency : latency > 0)

\* Lines 115-120: the results of gather, in task order, without the failures.
SuccessfulLatencies(results) == SelectSeq(results, LAMBDA latency : latency >= 0)

-----------------------------------------------------------------------------
(* run_analysis (lines 193-258).                                           *)

DictSet(d, k, v) == [ x \in DOMAIN d \cup { k } |-> IF x = k THEN v ELSE d[x] ]

\* The for loop moves on: the next quorum value, or the code after the loop.
NextIteration(i) == IF i < Len(QUORUM_VALUES) THEN "set_quorum" ELSE "settle"

\* Mutant: "break" in place of "continue".
OnSetQuorumFailureBreak(i) == "settle"

\* Mutant: "return" when the last value cannot be set.
OnSetQuorumFailureSkipCheck(i) == IF i < Len(QUORUM_VALUES) THEN "set_quorum" ELSE "done"

\* Mutant: the failure is ignored and the workload runs.
OnSetQuorumFailureIgnore(i) == "sleep"

\* Lines 208-210: "continue".
OnSetQuorumFailure(i) == NextIteration(i)

\* Mutant: the stats are stored whether or not a write succeeded.
StoreStatsAlways(stats_map, quorum, lats) == DictSet(stats_map, quorum, calculate_stats(lats))

\* Lines 222-224: "if latencies: all_stats[quorum] = calculate_stats(latencies)".
StoreStats(stats_map, quorum, lats) ==
    IF lats # << >>
    THEN DictSet(stats_map, quorum, calculate_stats(lats))
    ELSE stats_map

\* Lines 204-213: set_quorum; on failure "continue".
SetQuorum ==
    /\ pc = "set_quorum"
    /\ \E resp \in ConfigResponses :
          IF set_quorum(resp)
          THEN /\ set_ok' = [ set_ok EXCEPT ![qi] = "ok" ]
               /\ pc' = "sleep"
               /\ qi' = qi
          ELSE /\ set_ok' = [ set_ok EXCEPT ![qi] = "failed" ]
               /\ pc' = OnSetQuorumFailure(qi)
               /\ qi' = qi + 1
    /\ latencies' = << >>
    /\ UNCHANGED << all_stats, succ, attempted >>
    /\ UNCHANGED << taskVars, consVars, statsVars >>
    /\ UNCHANGED valueVars

\* Lines 113-120 and 218-232: gather returns once every task has finished;
\* the successful latencies are aggregated and stored under the quorum.
\* An exception that left a task is re-raised by gather and ends the run.
GatherReturn ==
    /\ pc = "gather"
    /\ GatherDone
    /\ IF \E t \in Tasks : escaped[t]
       THEN /\ pc' = "aborted"
            /\ UNCHANGED << qi, all_stats, latencies >>
       ELSE LET lats == SuccessfulLatencies([ t \in Tasks |-> result[t] ])
            IN  /\ latencies' = lats
                /\ all_stats' = StoreStats(all_stats, QUORUM_VALUES[qi], lats)
                /\ pc' = NextIteration(qi)
                /\ qi' = qi + 1
    /\ sem' = 0
    /\ ip' = [ t \in Tasks |-> 0 ]
    /\ result' = [ t \in Tasks |-> -1 ]
    /\ issued' = [ t \in Tasks |-> 0 ]
    /\ UNCHANGED << holds, timing, inflight, outcome, escaped >>
    /\ UNCHANGED << set_ok, succ, attempted >>
    /\ UNCHANGED << consVars, statsVars >>
    /\ UNCHANGED valueVars

\* Line 240: the settle delay before the consistency check.
Settle ==
    /\ pc = "settle"
    /\ pc' = "check_leader"
    /\ UNCHANGED << qi, all_stats, latencies, set_ok, succ, attempted >>
    /\ UNCHANGED << taskVars, consVars, statsVars >>
    /\ UNCHANGED valueVars

-----------------------------------------------------------------------------
(* Specifications.                                                         *)

StatsIdle ==
    /\ spc = "idle"
    /\ sample = << >>
    /\ stats = NoStats

\* run_analysis from its first line.
Init ==
    /\ pc = "set_quorum"
    /\ qi = 1
    /\ all_stats = EmptyDict
    /\ latencies = << >>
    /\ set_ok = [ i \in 1..Len(QUORUM_VALUES) |-> "none" ]
    /\ succ = [ i \in 1..Len(QUORUM_VALUES) |-> 0 ]
    /\ attempted = [ i \in 1..Len(QUORUM_VALUES) |-> 0 ]
    /\ IdleTasks
    /\ NoValues
    /\ ConsInit
    /\ StatsIdle

Next ==
    \/ SetQuorum
    \/ StartWrites(SteadyClock)
    \/ \E t \in Tasks : Acquire(t)
    \/ \E t \in Tasks : StartTimer(t)
    \/ \E t \in Tasks : IssueWrite(t)
    \/ \E t \in Tasks : ReceiveResponse(t)
    \/ \E t \in Tasks : Release(t)
    \/ GatherReturn
    \/ Settle
    \/ GetLeaderData(SmallLeaderResponses)
    \/ CheckFollower(SmallFollowerResponses)

Spec == Init /\ [][Next]_vars

\* run_analysis on a machine whose clock may be adjusted during the run.
NextValues ==
    \/ SetQuorum
    \/ StartWrites(AdjustableClock)
    \/ \E t \in Tasks : Acquire(t)
    \/ \E t \in Tasks : StartTimer(t)
    \/ \E t \in Tasks : IssueWrite(t)
    \/ \E t \in Tasks : ReceiveResponse(t)
    \/ \E t \in Tasks : Release(t)
    \/ GatherReturn
    \/ Settle
    \/ GetLeaderData(SmallLeaderResponses)
    \/ CheckFollower(SmallFollowerResponses)

SpecValues == Init /\ [][NextValues]_vars

\* run_analysis when every remote request eventually returns a response or
\* an error: the event loop runs every task that is ready, and every await
\* on the network ends, so a step that can be taken is taken.
\* Every request returns one of the store's answers or an error, after
\* some time.
EventualTimes == { 1 }

NextFair ==
    \/ SetQuorum
    \/ StartWrites(SteadyClock)
    \/ \E t \in Tasks : Acquire(t)
    \/ \E t \in Tasks : StartTimer(t)
    \/ \E t \in Tasks : IssueWrite(t)
    \/ \E t \in Tasks : ReceiveResponseOf(t, WriteResponses, EventualTimes)
    \/ \E t \in Tasks : Release(t)
    \/ GatherReturn
    \/ Settle
    \/ GetLeaderData(SmallLeaderResponses)
    \/ CheckFollower(SmallFollowerResponses)

SpecFair == Init /\ [][NextFair]_vars /\ WF_vars(NextFair)

\* check_consistency over the full family of dumps, entered after a sweep
\* in which every set_quorum failed (no write was issued).
InitCons ==
    /\ pc = "check_leader"
    /\ qi = Len(QUORUM_VALUES) + 1
    /\ all_stats = EmptyDict
    /\ latencies = << >>
    /\ set_ok = [ i \in 1..Len(QUORUM_VALUES) |-> "failed" ]
    /\ succ = [ i \in 1..Len(QUORUM_VALUES) |-> 0 ]
    /\ attempted = [ i \in 1..Len(QUORUM_VALUES) |-> 0 ]
    /\ IdleTasks
    /\ NoValues
    /\ ConsInit
    /\ StatsIdle

NextCons ==
    \/ GetLeaderData(LeaderResponses)
    \/ CheckFollower(FollowerResponses)

SpecCons == InitCons /\ [][NextCons]_vars

\* calculate_stats on every sample of the family.
InitStatsOnly ==
    /\ InitStats
    /\ pc = "idle"
    /\ qi = 1
    /\ all_stats = EmptyDict
    /\ latencies = << >>
    /\ set_ok = [ i \in 1..Len(QUORUM_VALUES) |-> "none" ]
    /\ succ = [ i \in 1..Len(QUORUM_VALUES) |-> 0 ]
    /\ attempted = [ i \in 1..Len(QUORUM_VALUES) |-> 0 ]
    /\ IdleTasks
    /\ NoValues
    /\ ConsInit

NextStats == CalculateStats /\ UNCHANGED << runVars, taskVars, consVars, valueVars >>

SpecStats == InitStatsOnly /\ [][NextStats]_vars

-----------------------------------------------------------------------------
(* Properties.                                                             *)

Range(s) == { s[i] : i \in 1..Len(s) }

Timed == { t \in Tasks : timing[t] }

\* C1: in every reachable state of run_concurrent_writes the number of
\* tasks inside their timed region (timer started, not yet stopped) is at
\* most the concurrency cap, also when there are more tasks than slots.
C1_TimedRegionWithinCap == Cardinality(Timed) <= CONCURRENT_WRITES

\* C1 witness: the cap is reached while a further task waits for a slot.
C1_Witness ==
    /\ Cardinality(Timed) = CONCURRENT_WRITES
    /\ Cardinality(Tasks) > CONCURRENT_WRITES
    /\ \E t \in Tasks : Step(t) = "acquire" /\ ~holds[t]

RecordsOf(r) == { r.followers[i] : i \in 1..Len(r.followers) }

CountSum(rec) == rec.matching_count + rec.mismatched_values + rec.missing_keys

\* C2: for every leader dump and follower dump, every record of the report
\* satisfies matching_count + mismatched_values + missing_keys = number of
\* leader keys, each count being between 0 and that number.
C2_PartitionLaw ==
    \A rec \in RecordsOf(report) :
        /\ CountSum(rec) = Cardinality(DOMAIN leader_data)
        /\ CountSum(rec) = report.leader_keys
        /\ rec.matching_count >= 0
        /\ rec.mismatched_values >= 0
        /\ rec.missing_keys >= 0

\* C2 witness: a finished report whose last record has a key in each class,
\* for a follower that also holds a key the leader lacks.
C2_Witness ==
    /\ pc = "done"
    /\ "d" \in DOMAIN follower_data
    /\ \E rec \in RecordsOf(report) :
          /\ rec.follower = Len(FOLLOWER_URLS)
          /\ rec.matching_count >= 1
          /\ rec.mismatched_values >= 1
          /\ rec.missing_keys >= 1

Ceiling(a, b) == (a + b - 1) \div b

CountLeq(s, v) == Cardinality({ i \in 1..Len(s) : s[i] <= v })

CountLess(s, v) == Cardinality({ i \in 1..Len(s) : s[i] < v })

\* v is the smallest value of s such that more than pct percent of s is <= v.
SmallestAboveShare(s, v, pct) ==
    /\ v \in Range(s)
    /\ 100 * CountLeq(s, v) > pct * Len(s)
    /\ 100 * CountLess(s, v) <= pct * Len(s)

\* C3 as stated: for every sample of size n >= 1, p95 and p99 are the
\* elements at 1-indexed ranks ceil(0.95 n) and ceil(0.99 n) of the sorted
\* sample.
C3_NearestRank ==
    (spc = "done" /\ Len(sample) >= 1) =>
        /\ stats.p95 = sorted(sample)[Ceiling(95 * Len(sample), 100)]
        /\ stats.p99 = sorted(sample)[Ceiling(99 * Len(sample), 100)]

\* C3 amended: for every sample of size n >= 1, p95 (p99) is the smallest
\* sample value v such that strictly more than 95% (99%) of the sample is
\* <= v; it is the element at 1-indexed rank ceil(0.95 n) of the sorted
\* sample unless 0.95 n is an integer, and then the element one rank higher;
\* for n = 1 both are the sole value.
C3_RankAboveShare ==
    (spc = "done" /\ Len(sample) >= 1) =>
        LET n == Len(sample)
            s == sorted(sample)
            RankOf(pct) == IF (pct * n) % 100 = 0
                           THEN Ceiling(pct * n, 100) + 1
                           ELSE Ceiling(pct * n, 100)
        IN  /\ SmallestAboveShare(sample, stats.p95, 95)
            /\ SmallestAboveShare(sample, stats.p99, 99)
            /\ stats.p95 = s[RankOf(95)]
            /\ stats.p99 = s[RankOf(99)]
            /\ n = 1 => stats.p95 = sample[1] /\ stats.p99 = sample[1]

\* C3 witness: twenty values, where 0.95 n is the integer 19 and the values
\* at ranks 19 and 20 differ: p95 is the one at rank 20.
C3_Witness ==
    /\ spc = "done"
    /\ Len(sample) = 20
    /\ sorted(sample)[19] # sorted(sample)[20]
    /\ stats.p95 = sorted(sample)[20]

Failed == { i \in 1..Len(QUORUM_VALUES) : set_ok[i] = "failed" }

\* C4 as stated: when set_quorum fails for one quorum value, the results
\* mapping returned at the end has an entry for every other configured
\* quorum value.
C4_EntryForEveryOther ==
    (pc = "done" /\ Cardinality(Failed) = 1) =>
        \A j \in 1..Len(QUORUM_VALUES) :
            j \notin Failed => QUORUM_VALUES[j] \in DOMAIN all_stats

\* C4 amended: a set_quorum failure never ends the sweep (while the sweep
\* runs, exactly the values before the current one have been tested, and at
\* the end every value has been), and the returned mapping has an entry for
\* every configured value whose own set_quorum succeeded and whose workload
\* had at least one successful write.
C4_SweepContinues ==
    /\ pc \in { "set_quorum", "sleep", "gather" } =>
          /\ qi \in 1..Len(QUORUM_VALUES)
          /\ \A j \in 1..Len(QUORUM_VALUES) : j < qi <=> (set_ok[j] # "none" /\ j # qi)
    /\ pc \in { "settle", "check_leader", "check_followers", "done" } =>
          \A j \in 1..Len(QUORUM_VALUES) :
              /\ set_ok[j] # "none"
              /\ (set_ok[j] = "ok" /\ succ[j] >= 1) => QUORUM_VALUES[j] \in DOMAIN all_stats

\* C4 witness: the first set_quorum failed, the second value was still
\* tested and has its entry.
C4_Witness ==
    /\ pc = "done"
    /\ set_ok[1] = "failed"
    /\ set_ok[Len(QUORUM_VALUES)] = "ok"
    /\ QUORUM_VALUES[Len(QUORUM_VALUES)] \in DOMAIN all_stats

HasRecord == Len(report.followers) >= 1

LastRecord == report.followers[Len(report.followers)]

\* C5 as stated: when the dump of the leader or of a follower fails, the
\* affected comparison shows all leader keys as missing and the record is
\* not fully consistent.
C5_AllMissingInconsistent ==
    /\ (HasRecord /\ follower_resp \in DumpFailures) =>
          /\ LastRecord.missing_keys = report.leader_keys
          /\ ~LastRecord.matches_leader
    /\ leader_resp \in DumpFailures =>
          \A rec \in RecordsOf(report) :
              /\ rec.missing_keys = report.leader_keys
              /\ ~rec.matches_leader

\* C5 amended: a node whose dump fails is treated as an empty dataset.  For
\* a follower, its record has 0 keys, no matching and no mismatched key and
\* missing_keys = leader key count, and it is not fully consistent exactly
\* when the leader dump has at least one key.  For the leader, leader_keys
\* is 0 and every record has all three counts 0 and is fully consistent.
C5_FailedDumpIsEmpty ==
    /\ (HasRecord /\ follower_resp \in DumpFailures) =>
          /\ follower_data = EmptyDict
          /\ LastRecord.keys = 0
          /\ LastRecord.matching_count = 0
          /\ LastRecord.mismatched_values = 0
          /\ LastRecord.missing_keys = report.leader_keys
          /\ LastRecord.matches_leader <=> report.leader_keys = 0
    /\ leader_resp \in DumpFailures =>
          /\ leader_data = EmptyDict
          /\ report.leader_keys = 0
          /\ \A rec \in RecordsOf(report) :
                /\ CountSum(rec) = 0
                /\ rec.missing_keys = 0
                /\ rec.matches_leader

\* C5 witness: the last follower's dump failed against a leader of three
\* keys: three missing keys, not consistent.
C5_Witness ==
    /\ pc = "done"
    /\ follower_resp \in DumpFailures
    /\ leader_resp \notin DumpFailures
    /\ report.leader_keys = 3
    /\ LastRecord.missing_keys = 3
    /\ ~LastRecord.matches_leader

\* C6: for every sample of size n >= 1, min <= median <= max,
\* min <= mean <= max, p99 <= max and, when n >= 2, p95 <= p99.
C6_StatsOrdering ==
    (spc = "done" /\ Len(sample) >= 1) =>
        /\ RatLeq(Rat(stats.min_val, 1), stats.median)
        /\ RatLeq(stats.median, Rat(stats.max_val, 1))
        /\ RatLeq(Rat(stats.min_val, 1), stats.mean)
        /\ RatLeq(stats.mean, Rat(stats.max_val, 1))
        /\ stats.p99 <= stats.max_val
        /\ Len(sample) >= 2 => stats.p95 <= stats.p99

\* C6 witness: an even-sized sample in which p95 < p99 and the median and
\* the mean lie strictly between the extrema.
C6_Witness ==
    /\ spc = "done"
    /\ Len(sample) >= 2
    /\ Len(sample) % 2 = 0
    /\ stats.p95 < stats.p99
    /\ stats.p99 <= stats.max_val
    /\ ~RatLeq(stats.median, Rat(stats.min_val, 1))
    /\ ~RatLeq(Rat(stats.max_val, 1), stats.median)
    /\ ~RatLeq(stats.mean, Rat(stats.min_val, 1))
    /\ ~RatLeq(Rat(stats.max_val, 1), stats.mean)

MatchingKeys == { k \in DOMAIN leader_data : k \in DOMAIN follower_data /\ follower_data[k] = leader_data[k] }

MismatchedKeys == { k \in DOMAIN leader_data : k \in DOMAIN follower_data /\ follower_data[k] # leader_data[k] }

MissingKeys == { k \in DOMAIN leader_data : k \notin DOMAIN follower_data }

ExampleFollower == [ k \in { "a", "b" } |-> IF k = "a" THEN 1 ELSE 9 ]

\* C7: the record of the follower compared last counts as matching exactly
\* the leader keys the follower holds with an equal value, as mismatched
\* exactly those it holds with a different value and as missing exactly
\* those it lacks; leader {a:1,b:2,c:3} against follower {a:1,b:9} gives
\* matching = 1, mismatched = 1, missing = 1.
C7_Classification ==
    HasRecord =>
        /\ LastRecord.matching_count = Cardinality(MatchingKeys)
        /\ LastRecord.mismatched_values = Cardinality(MismatchedKeys)
        /\ LastRecord.missing_keys = Cardinality(MissingKeys)
        /\ Range(LastRecord.mismatched_examples) \subseteq MismatchedKeys
        /\ (leader_data = ExampleLeader /\ follower_data = ExampleFollower) =>
              /\ LastRecord.matching_count = 1
              /\ LastRecord.mismatched_values = 1
              /\ LastRecord.missing_keys = 1
              /\ LastRecord.mismatched_examples = << "b" >>

\* C7 witness: the worked example has been classified.
C7_Witness ==
    /\ HasRecord
    /\ leader_data = ExampleLeader
    /\ follower_data = ExampleFollower
    /\ MatchingKeys = { "a" }
    /\ MismatchedKeys = { "b" }
    /\ MissingKeys = { "c" }

\* C8: when run_analysis terminates, the results mapping has an entry for q
\* exactly when q is a configured value whose workload had at least one
\* successful write (and then set_quorum(q) had succeeded); and an entry is
\* only ever written as the stats of a non-empty sample.
C8_ResultsDomain ==
    /\ [](pc = "done" =>
            /\ DOMAIN all_stats \subseteq Range(QUORUM_VALUES)
            /\ \A i \in 1..Len(QUORUM_VALUES) :
                  /\ QUORUM_VALUES[i] \in DOMAIN all_stats <=> succ[i] >= 1
                  /\ succ[i] >= 1 => set_ok[i] = "ok")
    /\ [][\A q \in DOMAIN all_stats' :
            (IF q \in DOMAIN all_stats THEN all_stats'[q] # all_stats[q] ELSE TRUE) =>
                /\ latencies' # << >>
                /\ \A i \in 1..Len(latencies') : latencies'[i] >= 0
                /\ all_stats'[q] = calculate_stats(latencies')]_vars

\* C8 witness: at the end the first value has an entry and the last one,
\* whose set_quorum succeeded but whose writes all failed, has none.
C8_Witness ==
    /\ pc = "done"
    /\ QUORUM_VALUES[1] \in DOMAIN all_stats
    /\ set_ok[Len(QUORUM_VALUES)] = "ok"
    /\ succ[Len(QUORUM_VALUES)] = 0
    /\ QUORUM_VALUES[Len(QUORUM_VALUES)] \notin DOMAIN all_stats

\* C9: in every task the timer runs only while the task holds its slot and
\* the write is outstanding only while the timer runs (acquire, timer
\* start, write issued, timer stop, release): a task waiting for a slot or
\* past its release has no running timer.
C9_TimerInsideSlot ==
    \A t \in Tasks :
        /\ inflight[t] => timing[t]
        /\ timing[t] => holds[t]
        /\ holds[t] => Step(t) \in { "start", "issue", "response", "release" }
        /\ Step(t) = "release" => ~timing[t]
        /\ Step(t) \in { "acquire", "end" } => (~timing[t] /\ ~inflight[t] /\ ~holds[t])

\* C9 witness: one task has its write outstanding inside its timed region
\* while another task waits for a slot, untimed.
C9_Witness ==
    \E t, u \in Tasks :
        /\ inflight[t] /\ timing[t] /\ holds[t]
        /\ Step(u) = "acquire" /\ ~timing[u]

\* C10: write_key returns a non-negative duration exactly when the answer
\* has status 200 and a body that signals success; on every other answer
\* (other status, body that is not JSON, body without success, transport
\* exception) it returns -1, and no exception ever leaves it.
C10_WriteKeyOutcome ==
    /\ pc # "aborted"
    /\ \A t \in Tasks :
          /\ ~escaped[t]
          /\ Step(t) = "release" =>
                /\ result[t] >= 0 <=> StoreAccepted(outcome[t])
                /\ StoreAccepted(outcome[t]) => result[t] \in ElapsedTimes
                /\ ~StoreAccepted(outcome[t]) => result[t] = -1

\* C10 witness: one write has returned a duration and a later one, answered
\* 200 with a body that is not JSON, is about to return -1.
C10_Witness ==
    \E t, u \in Tasks :
        /\ Step(u) = "end" /\ result[u] >= 0
        /\ Step(t) = "release" /\ outcome[t] = BadJson(200) /\ result[t] = -1

\* C12: calculate_stats applied to an empty sample returns the record whose
\* mean, median, p95, p99, min and max are all 0, and does not fail.
C12_EmptySampleZeroRecord ==
    (spc = "done" /\ sample = << >>) =>
        /\ RatEq(stats.mean, Rat(0, 1))
        /\ RatEq(stats.median, Rat(0, 1))
        /\ stats.p95 = 0
        /\ stats.p99 = 0
        /\ stats.min_val = 0
        /\ stats.max_val = 0

\* C12 witness: the empty sample has been aggregated.
C12_Witness ==
    /\ spc = "done"
    /\ Len(sample) = 0
    /\ stats.mean.den # 0
    /\ stats.max_val = 0

\* C13: for 99 latencies of 10 and one of 1000, median = 10, p95 = 10,
\* p99 = 1000 and mean = 1990/100.
C13_OutlierExample ==
    (spc = "done" /\ sample \in OutlierSamples) =>
        /\ RatEq(stats.median, Rat(10, 1))
        /\ stats.p95 = 10
        /\ stats.p99 = 1000
        /\ RatEq(stats.mean, Rat(1990, 100))
        /\ stats.min_val = 10
        /\ stats.max_val = 1000

\* C13 witness: the sample as written in the example (the slow request
\* last) has been aggregated, and its p99 is the slow request.
C13_Witness ==
    /\ spc = "done"
    /\ sample = OutlierSample(100)
    /\ stats.p99 = sample[100]
    /\ stats.p95 = sample[95]

\* C17: a record is marked fully consistent exactly when its mismatched and
\* missing counts are 0; keys the follower holds and the leader lacks change
\* no count and not the flag, so a follower holding a strict superset of
\* the leader's data is reported consistent.
C17_ConsistentFlag ==
    /\ \A rec \in RecordsOf(report) :
          rec.matches_leader <=> (rec.mismatched_values = 0 /\ rec.missing_keys = 0)
    /\ HasRecord =>
          LET common == Restrict(follower_data, DOMAIN follower_data \cap DOMAIN leader_data)
              plain  == FollowerRecord(LastRecord.follower, leader_data, common)
          IN  /\ LastRecord.matches_leader = plain.matches_leader
              /\ LastRecord.matching_count = plain.matching_count
              /\ LastRecord.mismatched_values = plain.mismatched_values
              /\ LastRecord.missing_keys = plain.missing_keys
              /\ LastRecord.mismatched_examples = plain.mismatched_examples
              /\ (\A k \in DOMAIN leader_data :
                     k \in DOMAIN follower_data /\ follower_data[k] = leader_data[k])
                 => LastRecord.matches_leader

\* C17 witness: the follower holds the leader's three keys with the
\* leader's values and the extra key "d", and is reported consistent.
C17_Witness ==
    /\ HasRecord
    /\ leader_data = ExampleLeader
    /\ DOMAIN follower_data = DOMAIN ExampleLeader \cup { "d" }
    /\ LastRecord.keys = 4
    /\ LastRecord.matching_count = 3
    /\ LastRecord.matches_leader

Permute(s, p) == [ i \in 1..Len(s) |-> s[p[i]] ]

Reverse(s) == [ i \in 1..Len(s) |-> s[Len(s) + 1 - i] ]

Rotate(s) == [ i \in 1..Len(s) |-> s[(i % Len(s)) + 1] ]

\* Every order of a short list; the reversal and a rotation of a long one.
Rearrangements(s) ==
    IF Len(s) <= 4
    THEN { Permute(s, p) : p \in Permutations(1..Len(s)) }
    ELSE { Reverse(s), Rotate(s) }

TaskCount == Cardinality(Tasks)

CountOf(seq, v) == Cardinality({ i \in 1..Len(seq) : seq[i] = v })

\* C11: whatever the outcomes of the writes, when run_concurrent_writes
\* returns every task has finished and has sent its write exactly once
\* (repetitions x |keys| writes in all), and the returned sample holds
\* exactly the latencies of the successful writes: as many entries as
\* successes, each value as often as it was returned, and no -1.
C11_AllWritesOnceSampleOfSuccesses ==
    /\ [](\A t \in Tasks : issued[t] <= 1)
    /\ [][(pc = "gather" /\ pc' # "gather") =>
            /\ \A t \in Tasks : Step(t) = "end" /\ issued[t] = 1
            /\ attempted[qi] = NUM_WRITES_PER_KEY * NUM_KEYS
            /\ Len(latencies') = succ[qi]
            /\ \A i \in 1..Len(latencies') : latencies'[i] >= 0
            /\ \A v \in ElapsedTimes :
                  CountOf(latencies', v) = Cardinality({ t \in Tasks : result[t] = v })]_vars

\* C11 witness: a step has returned in which some writes succeeded and some
\* failed; all were sent and the sample has one entry per success.
C11_Witness ==
    /\ pc \in { "set_quorum", "settle" }
    /\ qi >= 2
    /\ attempted[qi - 1] = TaskCount
    /\ Len(latencies) >= 1
    /\ Len(latencies) < TaskCount
    /\ Len(latencies) = succ[qi - 1]

NoTaskActive ==
    \A t \in Tasks : ip[t] = 0 /\ ~holds[t] /\ ~timing[t] /\ ~inflight[t] /\ issued[t] = 0

\* C14: quorum trials are strictly sequential: whenever run_analysis is not
\* inside gather (in particular when it issues set_quorum) no task exists
\* and no write is in flight, every earlier step has sent all of its writes
\* or none, and a write is only ever sent in a step whose set_quorum has
\* returned success.
C14_SequentialTrials ==
    /\ pc # "gather" => NoTaskActive
    /\ \A t \in Tasks :
          (ip[t] # 0 \/ inflight[t] \/ issued[t] > 0) => (pc = "gather" /\ set_ok[qi] = "ok")
    /\ \A j \in 1..Len(QUORUM_VALUES) :
          /\ attempted[j] > 0 => set_ok[j] = "ok"
          /\ j > qi => attempted[j] = 0
          /\ (j < qi /\ set_ok[j] = "ok") => attempted[j] = TaskCount
          /\ (j = qi /\ pc = "set_quorum") => attempted[j] = 0

\* C14 witness: set_quorum for the second value is about to be issued after
\* a first step that sent all its writes; none is in flight.
C14_Witness ==
    /\ pc = "set_quorum"
    /\ qi = 2
    /\ set_ok[1] = "ok"
    /\ attempted[1] = TaskCount
    /\ TaskCount > 1
    /\ NoTaskActive

SweepOver ==
    /\ qi = Len(QUORUM_VALUES) + 1
    /\ \A j \in 1..Len(QUORUM_VALUES) :
          /\ set_ok[j] # "none"
          /\ attempted[j] = IF set_ok[j] = "ok" THEN TaskCount ELSE 0
    /\ NoTaskActive

\* C15: check_consistency is called exactly once in every run, after the
\* last quorum value has been processed and all writes have completed,
\* whatever set_quorum calls and writes failed.
C15_OneCheckAfterSweep ==
    /\ checks <= 1
    /\ checks = 1 <=> pc \in { "check_followers", "done" }
    /\ pc \in { "settle", "check_leader", "check_followers", "done" } => SweepOver
    /\ pc = "done" => Len(report.followers) = Len(FOLLOWER_URLS)

\* C15 witness: the run has ended with one check although every quorum
\* value was skipped.
C15_Witness ==
    /\ pc = "done"
    /\ checks = 1
    /\ \A j \in 1..Len(QUORUM_VALUES) : set_ok[j] = "failed"

\* C16: a step whose set_quorum fails is skipped: the failing call leads
\* straight to the next set_quorum (or to the end of the loop) without
\* creating a task, sending a write or touching the results mapping, and a
\* failed value never has a write or an entry.
C16_FailedStepSkipped ==
    /\ [](\A j \in 1..Len(QUORUM_VALUES) :
            set_ok[j] = "failed" =>
                /\ attempted[j] = 0
                /\ succ[j] = 0
                /\ QUORUM_VALUES[j] \notin DOMAIN all_stats)
    /\ [][(pc = "set_quorum" /\ set_ok'[qi] = "failed") =>
            /\ pc' \in { "set_quorum", "settle" }
            /\ qi' = qi + 1
            /\ all_stats' = all_stats
            /\ attempted' = attempted
            /\ succ' = succ
            /\ ip' = ip
            /\ issued' = issued]_vars

\* C16 witness: the second set_quorum failed after a first step that left
\* an entry; the entry is there, the second value has none and no write.
C16_Witness ==
    /\ pc = "settle"
    /\ set_ok[1] = "ok"
    /\ set_ok[2] = "failed"
    /\ DOMAIN all_stats = { QUORUM_VALUES[1] }
    /\ attempted[2] = 0

Distinct(seq) == \A i, j \in 1..Len(seq) : i # j => seq[i] # seq[j]

\* C19: no two write tasks created during one run of run_analysis carry
\* the same value string.
C19_DistinctValues == Distinct(created)

\* C19 witness: two calls have created their tasks.
C19_Witness == Len(created) = 2 * TaskCount

\* C20: when every remote request eventually returns, run_analysis reaches
\* its terminal state (also when there are more tasks than slots); a task
\* leaving bounded_write gives its slot back whether its write succeeded or
\* failed; and when gather has all its results every slot is free.
C20_TerminatesSlotsFree ==
    /\ <>(pc = "done")
    /\ [](\A t \in Tasks : holds[t] => Step(t) \in { "start", "issue", "response", "release" })
    /\ []((pc = "gather" /\ GatherDone) =>
            (sem = CONCURRENT_WRITES /\ \A t \in Tasks : ~holds[t]))
    /\ [](sem + Cardinality({ t \in Tasks : holds[t] }) = IF pc = "gather" THEN CONCURRENT_WRITES ELSE 0)

\* C20 witness: a run with more tasks than slots has ended after a step in
\* which a write failed and a write succeeded.
C20_Witness ==
    /\ pc = "done"
    /\ NUM_WRITES_PER_KEY * NUM_KEYS > CONCURRENT_WRITES
    /\ \E j \in 1..Len(QUORUM_VALUES) :
          /\ attempted[j] = TaskCount
          /\ succ[j] >= 1
          /\ succ[j] < TaskCount

=============================================================================
